---- MODULE Spec2Model ----
(***************************************************************************)
(* Resumable hierarchical crawler of Scrapers/irc_scraper.py               *)
(* (class IRCCodeScraper): the fetch-with-retry primitive, the completion  *)
(* tracker persisted in scraper_progress.json, the section / chapter       *)
(* summary writers, the recursive descent over Subtitle, Chapter,          *)
(* Subchapter, Part, Subpart and Section, and the top-level driver with    *)
(* its irc_data_progress.json tree checkpoint.  A process can be paused    *)
(* (request_pause), can die at any step, and can be started again on the   *)
(* same output directory.                                                  *)
(***************************************************************************)
EXTENDS Integers, Sequences, FiniteSets, TLC

VARIABLES
    site,                 \* which site (link graph) the crawler runs against
    seed,                 \* the CompletionSet the output directory started with
    progressFile,         \* scraper_progress.json
    treeFile,             \* irc_data_progress.json
    secFile,              \* section_{n}.json files, by path
    sumFile,              \* _chapter_summary.json files, by chapter directory
    finalFile,            \* irc_complete.json and scrape_summary.txt
    completed_sections,   \* self.completed_sections
    should_pause,         \* self.should_pause
    data,                 \* self.data['subtitles']
    stack,                \* call stack of the scrape_* methods
    ret,                  \* value returned by the last call that returned
    req,                  \* the _make_request call in progress
    resume,               \* scrape_all's argument
    completed_subtitles,  \* scrape_all's local
    mode,                 \* "init", "running", "returned" or "crashed"
    run,                  \* number of processes started so far
    faults,               \* restarts, kills, failed fetches and exceptions so far
    nfetch,               \* history: _make_request calls per URL in this run
    prior,                \* history: what was on disk when this run started
    skipped,              \* history: Subtitles scrape_all skipped in this run
    everDone,             \* history: every URL scraper_progress.json ever held
    failed,               \* history: URLs whose fetch failed for good in this run
    raised,               \* history: leaves whose processing raised in this run
    procs                 \* the scrapers of two driver scripts run side by side

vars == <<site, seed, progressFile, treeFile, secFile, sumFile, finalFile,
          completed_sections, should_pause, data, stack, ret, req, resume,
          completed_subtitles, mode, run, faults, nfetch, prior,
          skipped, everDone, failed, raised, procs>>

----------------------------------------------------------------------------
(* Bounds of the model                                                     *)

\* the runs after the first, the killed processes, the fetches that fail for
\* good and the exceptions raised, all together
MaxFaults == 2
MaxRetries == 4
MaxTitleLen == 2

----------------------------------------------------------------------------
(* Program constants                                                       *)

DefaultRetries == 3
Delay == 1
NameLimit == 50
MinTextLen == 5

----------------------------------------------------------------------------
(* URLs and titles.  A URL is its hierarchy fragment and an identifier; a  *)
(* title is the sequence of its pieces of text.                            *)

Url(frag, id) == [frag |-> frag, id |-> id]

TOC_URL == Url("toc", "irc")
NoUrl == Url("", "")

Anchor(text, href) == [text |-> text, href |-> href]

Link(title, url) == [title |-> title, url |-> url]
NoLink == Link(<<>>, NoUrl)

RECURSIVE Pow2(_)
Pow2(n) == IF n = 0 THEN 1 ELSE 2 * Pow2(n - 1)

Range(s) == {s[k] : k \in 1..Len(s)}

\* keyword in title
Has(title, keyword) == keyword \in Range(title)

\* _extract_sections_range: '(Sections 1 to 1564)' or '(Section 1)' in the
\* text, else None
ExtractSectionsRange(text) ==
    IF Has(text, "(Sections") \/ Has(text, "(Section") THEN "range" ELSE "None"

RECURSIVE TextLen(_)
TextLen(text) == IF text = <<>> THEN 0 ELSE Len(Head(text)) + TextLen(Tail(text))

----------------------------------------------------------------------------
(* The site: every page is the sequence of its anchors.                    *)

Sites == {1}

\* a second link graph: site 1, with a link of Subchapter A's page that leads
\* back to the page of Chapter 1 and a link of Part I's page to itself
CyclicSite == 2

\* a third link graph: site 1, with the link of Subtitle A listed a second
\* time at the end of the TOC page
RepeatSite == 3

U_subA == Url("subtitle-", "a")
U_subB == Url("subtitle-", "b")
U_ch1 == Url("chapter-", "1")
U_ch2 == Url("chapter-", "2")
U_schA == Url("subchapter-", "a")
U_pt1 == Url("part-", "i")
U_pt2 == Url("part-", "ii")
U_spA == Url("subpart-", "a")
U_s1 == Url("section_", "1")
U_s2 == Url("section_", "2")
U_s3 == Url("section_", "3")
U_s4 == Url("section_", "4")

Href(host, url) == [host |-> host, frag |-> url.frag, id |-> url.id]

Page(s, url) ==
    IF s = RepeatSite /\ url = TOC_URL THEN
        << Anchor(<<"Subtitle", " ", "A">>, Href("", U_subA)),
           Anchor(<<"Subtitle", " ", "B">>, Href("", U_subB)),
           Anchor(<<"Subtitle", " ", "A">>, Href("", U_subA)) >>
    ELSE IF s = CyclicSite /\ url = U_schA THEN
        << Anchor(<<"Part", " ", "I">>, Href("", U_pt1)),
           Anchor(<<"Part", " ", "IX">>, Href("", U_ch1)) >>
    ELSE IF s = CyclicSite /\ url = U_pt1 THEN
        << Anchor(<<"Sec.", " ", "1">>, Href("", U_s1)),
           Anchor(<<"Sec.", " ", "2">>, Href("", U_s2)),
           Anchor(<<"Subpart", " ", "Z">>, Href("", U_pt1)) >>
    ELSE IF url = TOC_URL THEN
        << Anchor(<<"Subtitle", " ", "A">>, Href("", U_subA)),
           Anchor(<<"Bloomberg", " ", "Tax">>, Href("", Url("chapter-", "x"))),
           Anchor(<<"Subtitle", " ", "B">>, Href("", U_subB)) >>
    ELSE IF url = U_subA THEN
        << Anchor(<<"Chapter", " ", "1">>, Href("", U_ch1)) >>
    ELSE IF url = U_ch1 THEN
        << Anchor(<<"Subchapter", " ", "A">>, Href("", U_schA)),
           Anchor(<<"Sec.", " ", "3">>, Href("", U_s3)) >>
    ELSE IF url = U_schA THEN
        << Anchor(<<"Part", " ", "I">>, Href("", U_pt1)) >>
    ELSE IF url = U_pt1 THEN
        << Anchor(<<"Sec.", " ", "1">>, Href("", U_s1)),
           Anchor(<<"Sec.", " ", "2">>, Href("", U_s2)) >>
    ELSE IF url = U_subB THEN
        << Anchor(<<"Chapter", " ", "2">>, Href("", U_ch2)),
           Anchor(<<"Home">>, Href("", U_ch1)) >>
    ELSE IF url = U_ch2 THEN
        << Anchor(<<"Part", " ", "II">>, Href("irc.bloombergtax.com", U_pt2)),
           Anchor(<<"Part", " ", "III">>, Href("example.com", U_pt1)) >>
    ELSE IF url = U_pt2 THEN
        << Anchor(<<"Subpart", " ", "A">>, Href("", U_spA)),
           Anchor(<<"About", " ", "IRC">>, Href("", Url("about", "irc"))) >>
    ELSE IF url = U_spA THEN
        << Anchor(<<"Sec.", " ", "4">>, Href("", U_s4)) >>
    ELSE <<>>

Leaves == {U_s1, U_s2, U_s3, U_s4}

AllUrls == {TOC_URL, U_subA, U_subB, U_ch1, U_ch2, U_schA, U_pt1, U_pt2, U_spA} \cup Leaves

----------------------------------------------------------------------------
(* _extract_links_and_info                                                 *)

SkipWords == {"Bloomberg", "Log In", "About Us", "Contact", "Copyright",
              "Terms", "Privacy", "Request"}

\* 'subchapter-' holds 'chapter-' and 'subpart-' holds 'part-'
IrcFragments == {"subtitle-", "chapter-", "subchapter-", "part-", "subpart-",
                 "section_"}

IsIrcLink(href) == href.frag \in IrcFragments

KeepAnchor(a) ==
    /\ ~(a.text = <<>> \/ TextLen(a.text) < MinTextLen)
    /\ ~(\E w \in SkipWords : Has(a.text, w))
    /\ ~(a.href.host # "" /\ a.href.host \notin {"irc.bloombergtax.com", "www.bloombergtax.com"})
    /\ IsIrcLink(a.href)

RECURSIVE ExtractLinksAndInfo(_)
ExtractLinksAndInfo(anchors) ==
    IF anchors = <<>> THEN <<>>
    ELSE LET a == Head(anchors)
             rest == ExtractLinksAndInfo(Tail(anchors))
         IN IF KeepAnchor(a)
            THEN <<Link(a.text, Url(a.href.frag, a.href.id))>> \o rest
            ELSE rest

\* the links extracted from every page of every site
PageLinks ==
    [s \in Sites \cup {CyclicSite, RepeatSite} |->
        [url \in AllUrls |-> ExtractLinksAndInfo(Page(s, url))]]

Links(url) == PageLinks[site][url]

----------------------------------------------------------------------------
(* _make_request: the fetch-with-retry loop.  attempt is the loop          *)
(* variable, tries counts the session.get calls, sleeps is every           *)
(* time.sleep the call made, in order.                                     *)

IdleReq == [pc |-> "idle", url |-> NoUrl, retries |-> 0, attempt |-> 0,
            tries |-> 0, sleeps |-> <<>>, ok |-> FALSE]

\* for attempt in range(retries): ... ; return None
MakeRequest(url, retries) ==
    [pc |-> IF retries > 0 THEN "run" ELSE "done", url |-> url,
     retries |-> retries, attempt |-> 0, tries |-> 0, sleeps |-> <<>>,
     ok |-> FALSE]

\* the attempt that succeeds is made without the delay before it
GetOkNoDelay(r) == [r EXCEPT !.pc = "done", !.ok = TRUE, !.tries = @ + 1]

\* time.sleep(self.delay); session.get succeeds; return the page
GetOk(r) ==
    [r EXCEPT !.pc = "done", !.ok = TRUE, !.tries = @ + 1,
              !.sleeps = Append(@, <<"delay", Delay>>)]

IsLastAttempt(r) == r.attempt = r.retries - 1

BackoffFromTwo(attempt) == Pow2(attempt + 1)

\* 2 ** attempt
Backoff(attempt) == Pow2(attempt)

\* time.sleep(self.delay); session.get raises RequestException
GetFail(r) ==
    IF IsLastAttempt(r)
    THEN [r EXCEPT !.pc = "done", !.ok = FALSE, !.tries = @ + 1,
                   !.sleeps = Append(@, <<"delay", Delay>>)]
    ELSE [r EXCEPT !.attempt = @ + 1, !.tries = @ + 1,
                   !.sleeps = @ \o << <<"delay", Delay>>,
                                      <<"backoff", Backoff(r.attempt)>> >>]

----------------------------------------------------------------------------
(* Files.  open(path, 'w') truncates the file; json.dump then writes it.   *)
(* A file that was opened for writing and not yet dumped does not parse.   *)

\* set is 'completed_sections', count is 'total_completed'
AbsentProgress == [st |-> "absent", set |-> {}, count |-> 0]
OpenedProgress == [st |-> "partial", set |-> {}, count |-> 0]
ValidProgress(set) == [st |-> "valid", set |-> set, count |-> Cardinality(set)]

AbsentTree == [st |-> "absent", subs |-> <<>>]
OpenedTree == [st |-> "partial", subs |-> <<>>]
ValidTree(subs) == [st |-> "valid", subs |-> subs]

\* a scraper that starts with an empty completion set whatever the file holds
IgnoreProgress(file) == {}

NoFinal == [json |-> "absent", summary |-> "absent"]

\* _save_final: irc_complete.json is written, then scrape_summary.txt, whose
\* loop raises TypeError at len(part.get('sections', [])) on a Part whose
\* 'sections' is None and leaves the summary without its totals
SaveFinal(subs) ==
    [json |-> "valid",
     summary |-> IF \E k \in 1..Len(subs) : subs[k].bad THEN "partial" ELSE "valid"]

\* _load_progress
LoadProgress(file) == IF file.st = "valid" THEN file.set ELSE {}

\* consults the tree instead of the completion set
CheckIfInTree(section_url) ==
    section_url \in UNION {data[k].secs : k \in 1..Len(data)}

\* only a resumed run consults the completion set
CheckIfCompletedOnResume(section_url) == resume /\ section_url \in completed_sections

\* _check_if_completed
CheckIfCompleted(section_url) == section_url \in completed_sections

----------------------------------------------------------------------------
(* _save_section_file / _save_chapter_summary: names and paths             *)

Punctuation == {".", ",", "(", ")", "/", ":"}

StripTok(tok) == IF tok = "Sec." THEN "Sec" ELSE tok

\* re.sub(r'[^\w\s-]', '', name)
RECURSIVE StripChars(_)
StripChars(name) ==
    IF name = <<>> THEN <<>>
    ELSE IF Head(name) \in Punctuation THEN StripChars(Tail(name))
    ELSE <<StripTok(Head(name))>> \o StripChars(Tail(name))

\* .strip()
RECURSIVE Strip(_)
Strip(name) ==
    IF name = <<>> THEN <<>>
    ELSE IF Head(name) = " " THEN Strip(Tail(name))
    ELSE IF name[Len(name)] = " " THEN Strip(SubSeq(name, 1, Len(name) - 1))
    ELSE name

\* .replace(' ', '_')
Underscore(name) == [k \in 1..Len(name) |-> IF name[k] = " " THEN "_" ELSE name[k]]

\* [:50]
RECURSIVE Truncate(_, _)
Truncate(name, room) ==
    IF name = <<>> \/ Len(Head(name)) > room THEN <<>>
    ELSE <<Head(name)>> \o Truncate(Tail(name), room - Len(Head(name)))

Clean(name) == Truncate(Underscore(Strip(StripChars(name))), NameLimit)

ChapterDir(subtitle_name, chapter_name) == <<Clean(subtitle_name), Clean(chapter_name)>>

SectionIds == {"1", "2", "3", "4", "30a"}
Upper(id) == IF id = "30a" THEN "30A" ELSE id

\* the section number from the URL, else from the title, else 'unknown'
SectionNumber(section_url, title) ==
    IF section_url.frag = "section_" /\ section_url.id \in SectionIds
    THEN Upper(section_url.id)
    ELSE IF \E k \in 1..(Len(title) - 2) :
                title[k] = "Sec." /\ title[k + 1] = " " /\ title[k + 2] \in SectionIds
         THEN LET k == CHOOSE k \in 1..(Len(title) - 2) :
                         /\ title[k] = "Sec." /\ title[k + 1] = " "
                         /\ title[k + 2] \in SectionIds
                         /\ \A m \in 1..(k - 1) :
                               ~(title[m] = "Sec." /\ title[m + 1] = " "
                                 /\ title[m + 2] \in SectionIds)
              IN title[k + 2]
         ELSE "unknown"

SectionPath(subtitle_name, chapter_name, section_number) ==
    <<Clean(subtitle_name), Clean(chapter_name), section_number>>

Opened == [st |-> "partial", secs |-> {}]
Written(secs) == [st |-> "valid", secs |-> secs]

\* the file at path p of store f is complete
IsValid(f, p) == p \in DOMAIN f /\ f[p].st = "valid"

Put(f, p, v) == [q \in DOMAIN f \cup {p} |-> IF q = p THEN v ELSE f[q]]

----------------------------------------------------------------------------
(* Call stack                                                              *)

Frame(fn, info, subtitle_name, chapter_name) ==
    [fn |-> fn, pc |-> "entry", info |-> info, i |-> 1, j |-> 1, secs |-> {},
     kids |-> {}, cut |-> FALSE, bad |-> FALSE, sub |-> subtitle_name,
     ch |-> chapter_name]

AllFrame == [Frame("all", Link(<<>>, TOC_URL), <<>>, <<>>) EXCEPT !.pc = "start"]

\* Return values: None, {'skipped': True, 'url': u}, a section's content, or
\* a unit's dictionary: has says whether it carries its children's keys (the
\* *_data copy) or is the *_info it was called with; secs are the sections
\* whose content is recorded in it; cut says whether a pause stopped it.
\* fn is the method that returned it; bad says that the dictionary holds,
\* where _save_final looks for Parts, a Part whose 'sections' is None.
NoRet == [k |-> "none", url |-> NoUrl, has |-> FALSE, cut |-> FALSE, secs |-> {},
          fn |-> "", bad |-> FALSE]
RetNone == [NoRet EXCEPT !.k = "None"]
RetSkipped(u) == [NoRet EXCEPT !.k = "skipped", !.url = u]
RetContent(u) == [NoRet EXCEPT !.k = "content", !.url = u, !.secs = {u}]
RetInfo(f, cut) ==
    [NoRet EXCEPT !.k = "unit", !.url = f.info.url, !.cut = cut, !.fn = f.fn,
                  !.bad = (f.fn = "part" /\ ExtractSectionsRange(f.info.title) = "None")]
RetData(f, cut) ==
    [k |-> "unit", url |-> f.info.url, has |-> TRUE, cut |-> f.cut \/ cut,
     secs |-> f.secs, fn |-> f.fn, bad |-> f.bad]

Top == stack[Len(stack)]
At(fn, pc) == mode = "running" /\ stack # <<>> /\ Top.fn = fn /\ Top.pc = pc
SetTop(f) == [stack EXCEPT ![Len(stack)] = f]
Push(f, callee) == Append(SetTop(f), callee)

\* the children a unit's dictionary lists once v is returned to it: a unit's
\* dictionary is always appended, a section's only if it is neither None nor
\* the 'skipped' marker
Listed(kids, v) == IF v.k \in {"unit", "content"} THEN kids \cup {v.url} ELSE kids

\* _save_final walks subtitle['chapters'], chapter['subchapters'] and
\* subchapter['parts'] (lines 641-651)
SummaryWalks(caller, v) ==
    <<caller.fn, v.fn>> \in {<<"subtitle", "chapter">>, <<"chapter", "subchapter">>,
                             <<"subchapter", "part">>}

\* the caller's frame once the call it made has returned v
Resumed(caller, v) ==
    IF caller.fn = "all" THEN [caller EXCEPT !.pc = "append"]
    ELSE IF caller.fn = "part" /\ caller.pc = "subloop"
    THEN [caller EXCEPT !.secs = @ \cup v.secs, !.kids = Listed(@, v), !.j = @ + 1]
    ELSE [caller EXCEPT !.secs = @ \cup v.secs, !.kids = Listed(@, v),
                        !.cut = @ \/ v.cut, !.i = @ + 1,
                        !.bad = @ \/ (v.bad /\ SummaryWalks(caller, v))]

Returned(v) ==
    LET rest == SubSeq(stack, 1, Len(stack) - 1)
    IN [rest EXCEPT ![Len(rest)] = Resumed(rest[Len(rest)], v)]

Return(v) == stack' = Returned(v) /\ ret' = v

Count(f, u) == [f EXCEPT ![u] = @ + 1]

disk == <<progressFile, treeFile, secFile, sumFile, finalFile>>
memory == <<completed_sections, should_pause, data, resume, completed_subtitles>>
fixed == <<site, seed, procs>>
world == <<fixed, run, faults>>
history == <<nfetch, prior, skipped, everDone, failed, raised>>

----------------------------------------------------------------------------
(* The process: start, pause request, death                                *)

SeedSets == {{}, {U_s1}}

NoPrior ==
    [done |-> {}, files |-> {}, sums |-> <<>>, tree |-> {},
     progressFile |-> AbsentProgress, treeFile |-> AbsentTree, finalFile |-> NoFinal]

Snapshot ==
    [done |-> LoadProgress(progressFile),
     files |-> UNION {secFile[p].secs : p \in DOMAIN secFile},
     sums |-> [d \in {d \in DOMAIN sumFile : sumFile[d].st = "valid"} |-> sumFile[d].secs],
     tree |-> UNION {treeFile.subs[k].secs : k \in 1..Len(treeFile.subs)},
     progressFile |-> progressFile, treeFile |-> treeFile, finalFile |-> finalFile]

Init ==
    /\ site \in Sites
    /\ seed \in SeedSets
    /\ progressFile = IF seed = {} THEN AbsentProgress ELSE ValidProgress(seed)
    /\ treeFile = AbsentTree
    /\ secFile = <<>>
    /\ sumFile = <<>>
    /\ finalFile = NoFinal
    /\ completed_sections = {}
    /\ should_pause = FALSE
    /\ data = <<>>
    /\ stack = <<>>
    /\ ret = NoRet
    /\ req = IdleReq
    /\ resume = FALSE
    /\ completed_subtitles = {}
    /\ mode = "init"
    /\ run = 0
    /\ faults = 0
    /\ nfetch = [u \in AllUrls |-> 0]
    /\ prior = NoPrior
    /\ skipped = {}
    /\ everDone = seed
    /\ failed = {}
    /\ raised = {}
    /\ procs = <<>>

\* main: IRCCodeScraper(output_dir) followed by scrape_all(resume); resuming
\* is offered only if irc_data_progress.json exists (lines 673-674, 704-731)
StartRun ==
    /\ mode # "running"
    /\ run > 0 => faults < MaxFaults
    /\ faults' = IF run > 0 THEN faults + 1 ELSE faults
    /\ \E r \in BOOLEAN : resume' = (r /\ treeFile.st # "absent")
    /\ run' = run + 1
    /\ mode' = "running"
    /\ completed_sections' = LoadProgress(progressFile)
    /\ should_pause' = FALSE
    /\ data' = <<>>
    /\ completed_subtitles' = {}
    /\ stack' = <<AllFrame>>
    /\ ret' = NoRet
    /\ req' = IdleReq
    /\ nfetch' = [u \in AllUrls |-> 0]
    /\ prior' = Snapshot
    /\ skipped' = {}
    /\ failed' = {}
    /\ raised' = {}
    /\ UNCHANGED <<disk, fixed, everDone>>

\* request_pause, called by the SIGINT handler
RequestPause ==
    /\ mode = "running"
    /\ ~should_pause
    /\ should_pause' = TRUE
    /\ UNCHANGED <<disk, world, history, stack, ret, req, mode,
                   completed_sections, data, resume, completed_subtitles>>

\* the process dies: its memory is gone, the files stay as they are
Crash ==
    /\ mode = "running"
    /\ faults < MaxFaults
    /\ faults' = faults + 1
    /\ mode' = "crashed"
    /\ stack' = <<>>
    /\ ret' = NoRet
    /\ req' = IdleReq
    /\ completed_sections' = {}
    /\ should_pause' = FALSE
    /\ data' = <<>>
    /\ resume' = FALSE
    /\ completed_subtitles' = {}
    /\ UNCHANGED <<disk, fixed, run, history>>

----------------------------------------------------------------------------
(* One attempt of the _make_request in progress                            *)

AttemptOk ==
    /\ mode = "running"
    /\ req.pc = "run"
    /\ req' = GetOk(req)
    /\ UNCHANGED <<disk, memory, world, history, stack, ret, mode>>

AttemptFail ==
    /\ mode = "running"
    /\ req.pc = "run"
    /\ IsLastAttempt(req) => faults < MaxFaults
    /\ req' = GetFail(req)
    /\ faults' = IF IsLastAttempt(req) THEN faults + 1 ELSE faults
    /\ failed' = IF IsLastAttempt(req) THEN failed \cup {req.url} ELSE failed
    /\ UNCHANGED <<disk, memory, fixed, run, nfetch, prior, skipped, everDone,
                   raised, stack, ret, mode>>

----------------------------------------------------------------------------
(* scrape_section                                                          *)

\* lines 288-294: the completion check, else the fetch is issued
SectionEntry ==
    /\ At("section", "entry")
    /\ IF CheckIfCompleted(Top.info.url)
       THEN /\ Return(RetSkipped(Top.info.url))
            /\ UNCHANGED <<req, nfetch>>
       ELSE /\ stack' = SetTop([Top EXCEPT !.pc = "fetch"])
            /\ req' = MakeRequest(Top.info.url, DefaultRetries)
            /\ nfetch' = Count(nfetch, Top.info.url)
            /\ ret' = ret
    /\ UNCHANGED <<disk, memory, world, prior, skipped, everDone, failed, raised,
                   mode>>

\* a leaf whose fetch failed is marked as completed all the same
SectionFetchedMarksFailure ==
    /\ At("section", "fetch")
    /\ req.pc = "done"
    /\ req' = IdleReq
    /\ IF ~req.ok
       THEN stack' = SetTop([Top EXCEPT !.pc = "mark"]) /\ UNCHANGED <<secFile, ret>>
       ELSE IF Top.sub # <<>> /\ Top.ch # <<>>
       THEN /\ secFile' = Put(secFile,
                    SectionPath(Top.sub, Top.ch,
                                SectionNumber(Top.info.url, Top.info.title)),
                    Opened)
            /\ stack' = SetTop([Top EXCEPT !.pc = "dump"])
            /\ ret' = ret
       ELSE /\ stack' = SetTop([Top EXCEPT !.pc = "mark"])
            /\ UNCHANGED <<secFile, ret>>
    /\ UNCHANGED <<progressFile, treeFile, sumFile, finalFile, memory, world,
                   history, mode>>

\* the page of a leaf is dropped if a pause was requested during its fetch
SectionFetchedChecksPause ==
    /\ At("section", "fetch")
    /\ req.pc = "done"
    /\ req' = IdleReq
    /\ IF ~req.ok \/ should_pause
       THEN Return(RetNone) /\ secFile' = secFile
       ELSE IF Top.sub # <<>> /\ Top.ch # <<>>
       THEN /\ secFile' = Put(secFile,
                    SectionPath(Top.sub, Top.ch,
                                SectionNumber(Top.info.url, Top.info.title)),
                    Opened)
            /\ stack' = SetTop([Top EXCEPT !.pc = "dump"])
            /\ ret' = ret
       ELSE /\ stack' = SetTop([Top EXCEPT !.pc = "mark"])
            /\ UNCHANGED <<secFile, ret>>
    /\ UNCHANGED <<progressFile, treeFile, sumFile, finalFile, memory, world,
                   history, mode>>

\* lines 295-314: None on a failed fetch; else parse and open the section file
SectionFetched ==
    /\ At("section", "fetch")
    /\ req.pc = "done"
    /\ req' = IdleReq
    /\ IF ~req.ok
       THEN Return(RetNone) /\ secFile' = secFile
       ELSE IF Top.sub # <<>> /\ Top.ch # <<>>
       THEN /\ secFile' = Put(secFile,
                    SectionPath(Top.sub, Top.ch,
                                SectionNumber(Top.info.url, Top.info.title)),
                    Opened)
            /\ stack' = SetTop([Top EXCEPT !.pc = "dump"])
            /\ ret' = ret
       ELSE /\ stack' = SetTop([Top EXCEPT !.pc = "mark"])
            /\ UNCHANGED <<secFile, ret>>
    /\ UNCHANGED <<progressFile, treeFile, sumFile, finalFile, memory, world,
                   history, mode>>

\* lines 248-249: json.dump of the section's content
SectionDump ==
    /\ At("section", "dump")
    /\ secFile' = Put(secFile,
            SectionPath(Top.sub, Top.ch, SectionNumber(Top.info.url, Top.info.title)),
            Written({Top.info.url}))
    /\ stack' = SetTop([Top EXCEPT !.pc = "mark"])
    /\ UNCHANGED <<progressFile, treeFile, sumFile, finalFile, memory, world,
                   history, ret, req, mode>>

\* _mark_completed: the add, and _save_progress_state's open(..., 'w')
MarkCompleted ==
    /\ At("section", "mark")
    /\ completed_sections' = completed_sections \cup {Top.info.url}
    /\ progressFile' = OpenedProgress
    /\ stack' = SetTop([Top EXCEPT !.pc = "save"])
    /\ UNCHANGED <<treeFile, secFile, sumFile, finalFile, should_pause, data,
                   resume, completed_subtitles, world, history, ret, req, mode>>

\* the file is written with the set as it was before the add
SaveProgressStateStale ==
    /\ At("section", "save")
    /\ progressFile' = ValidProgress(completed_sections \ {Top.info.url})
    /\ everDone' = everDone \cup completed_sections
    /\ Return(RetContent(Top.info.url))
    /\ UNCHANGED <<treeFile, secFile, sumFile, finalFile, memory, world,
                   nfetch, prior, skipped, failed, raised, req, mode>>

\* _save_progress_state's json.dump, then scrape_section returns the content
SaveProgressState ==
    /\ At("section", "save")
    /\ progressFile' = ValidProgress(completed_sections)
    /\ everDone' = everDone \cup completed_sections
    /\ Return(RetContent(Top.info.url))
    /\ UNCHANGED <<treeFile, secFile, sumFile, finalFile, memory, world,
                   nfetch, prior, skipped, failed, raised, req, mode>>

\* An exception inside scrape_section: _parse_section_content or the open of
\* the section file raises (nothing is written), or json.dump raises (the
\* file stays truncated).  No scrape_* method catches it: it unwinds to the
\* try of scrape_all (line 597).
SectionRaise ==
    /\ \/ At("section", "fetch") /\ req.pc = "done" /\ req.ok
       \/ At("section", "dump")
    /\ faults < MaxFaults
    /\ faults' = faults + 1
    /\ raised' = raised \cup {Top.info.url}
    /\ stack' = <<[stack[1] EXCEPT !.pc = "except"]>>
    /\ req' = IdleReq
    /\ UNCHANGED <<disk, memory, fixed, run, nfetch, prior, skipped, everDone,
                   failed, ret, mode>>

----------------------------------------------------------------------------
(* Classification of a link at each level (the if / elif chains)           *)

\* 'section' in url.lower()
SectionInUrl(url) == url.frag = "section_"

\* scrape_all, line 564
IsSubtitle(link) == Has(link.title, "Subtitle")

\* [link for link in subtitle_links if 'Subtitle' in link['title']]
RECURSIVE SubtitlesOf(_)
SubtitlesOf(links) ==
    IF links = <<>> THEN <<>>
    ELSE IF IsSubtitle(Head(links)) THEN <<Head(links)>> \o SubtitlesOf(Tail(links))
    ELSE SubtitlesOf(Tail(links))

Subtitles == SubtitlesOf(Links(TOC_URL))

\* scrape_subtitle, line 520
ClassifyAtSubtitle(link) ==
    IF Has(link.title, "Chapter") THEN "chapter" ELSE "none"

\* scrape_chapter, lines 464-474
ClassifyAtChapter(link) ==
    IF Has(link.title, "Subchapter") THEN "subchapter"
    ELSE IF Has(link.title, "Part") THEN "part"
    ELSE IF Has(link.title, "Sec.") THEN "section"
    ELSE "none"

\* scrape_subchapter, lines 415-419
ClassifyAtSubchapter(link) ==
    IF Has(link.title, "Part") THEN "part"
    ELSE IF Has(link.title, "Sec.") THEN "section"
    ELSE "none"

\* scrape_part, lines 357-370
ClassifyAtPart(link) ==
    IF Has(link.title, "Subpart") THEN "subpart"
    ELSE IF Has(link.title, "Sec.") \/ SectionInUrl(link.url) THEN "section"
    ELSE "none"

\* scrape_part, line 364
ClassifyAtSubpart(link) ==
    IF Has(link.title, "Sec.") \/ SectionInUrl(link.url) THEN "section" ELSE "none"

----------------------------------------------------------------------------
(* The shape shared by scrape_subtitle, scrape_chapter, scrape_subchapter  *)
(* and scrape_part: the pause check at entry, the fetch of the unit's page *)

UnitEntry(fn) ==
    /\ At(fn, "entry")
    /\ IF should_pause
       THEN /\ Return(RetInfo(Top, TRUE))
            /\ UNCHANGED <<req, nfetch>>
       ELSE /\ stack' = SetTop([Top EXCEPT !.pc = "fetch"])
            /\ req' = MakeRequest(Top.info.url, DefaultRetries)
            /\ nfetch' = Count(nfetch, Top.info.url)
            /\ ret' = ret
    /\ UNCHANGED <<disk, memory, world, prior, skipped, everDone, failed, raised,
                   mode>>

\* a failed fetch of a unit's page ends the whole crawl
UnitFetchedFatal(fn) ==
    /\ At(fn, "fetch")
    /\ req.pc = "done"
    /\ req' = IdleReq
    /\ IF ~req.ok
       THEN stack' = <<>> /\ mode' = "returned" /\ ret' = ret
       ELSE stack' = SetTop([Top EXCEPT !.pc = "loop"]) /\ UNCHANGED <<ret, mode>>
    /\ UNCHANGED <<disk, memory, world, history>>

\* lines 340-342: the unit's own dictionary is returned on a failed fetch
UnitFetched(fn) ==
    /\ At(fn, "fetch")
    /\ req.pc = "done"
    /\ req' = IdleReq
    /\ IF ~req.ok
       THEN Return(RetInfo(Top, FALSE))
       ELSE stack' = SetTop([Top EXCEPT !.pc = "loop"]) /\ ret' = ret
    /\ UNCHANGED <<disk, memory, world, history, mode>>

\* the child is called without subtitle_name and chapter_name
DescendNoNames(f, link, kind) ==
    IF kind = "none"
    THEN stack' = SetTop([f EXCEPT !.i = @ + 1])
    ELSE stack' = Push(f, Frame(kind, link, <<>>, <<>>))

\* the loop does not move on past a link it does not follow
DescendStays(f, link, kind) ==
    IF kind = "none"
    THEN stack' = SetTop(f)
    ELSE stack' = Push(f, Frame(kind, link, f.sub, f.ch))

\* the call of the scrape_* method for a child link, or the next link
Descend(f, link, kind) ==
    IF kind = "none"
    THEN stack' = SetTop([f EXCEPT !.i = @ + 1])
    ELSE stack' = Push(f, Frame(kind, link, f.sub, f.ch))

----------------------------------------------------------------------------
(* scrape_subtitle                                                         *)

SubtitleEntry == UnitEntry("subtitle")
SubtitleFetched == UnitFetched("subtitle")

SubtitleLoop ==
    /\ At("subtitle", "loop")
    /\ LET f == [Top EXCEPT !.sub = Top.info.title]
           links == Links(f.info.url)
       IN IF f.i > Len(links) THEN Return(RetData(f, FALSE))
          ELSE IF should_pause THEN Return(RetData(f, TRUE))
          ELSE Descend(f, links[f.i], ClassifyAtSubtitle(links[f.i])) /\ ret' = ret
    /\ UNCHANGED <<disk, memory, world, history, req, mode>>

----------------------------------------------------------------------------
(* scrape_chapter                                                          *)

ChapterEntry == UnitEntry("chapter")
ChapterFetched == UnitFetched("chapter")

ChapterLoop ==
    /\ At("chapter", "loop")
    /\ LET f == [Top EXCEPT !.ch = Top.info.title]
           links == Links(f.info.url)
       IN IF f.i > Len(links) \/ should_pause
          THEN \* _save_chapter_summary: open(summary_file, 'w')
               /\ sumFile' = Put(sumFile, ChapterDir(f.sub, f.ch), Opened)
               /\ stack' = SetTop([f EXCEPT !.pc = "summary",
                                            !.cut = @ \/ f.i <= Len(links)])
          ELSE /\ Descend(f, links[f.i], ClassifyAtChapter(links[f.i]))
               /\ sumFile' = sumFile
    /\ UNCHANGED <<progressFile, treeFile, secFile, finalFile, memory, world,
                   history, ret, req, mode>>

\* _save_chapter_summary: json.dump, then scrape_chapter returns chapter_data
SaveChapterSummary ==
    /\ At("chapter", "summary")
    /\ sumFile' = Put(sumFile, ChapterDir(Top.sub, Top.ch), Written(Top.secs))
    /\ Return(RetData(Top, FALSE))
    /\ UNCHANGED <<progressFile, treeFile, secFile, finalFile, memory, world,
                   history, req, mode>>

----------------------------------------------------------------------------
(* scrape_subchapter                                                       *)

SubchapterEntry == UnitEntry("subchapter")
SubchapterFetched == UnitFetched("subchapter")

SubchapterLoop ==
    /\ At("subchapter", "loop")
    /\ LET f == Top
           links == Links(f.info.url)
       IN IF f.i > Len(links) THEN Return(RetData(f, FALSE))
          ELSE IF should_pause THEN Return(RetData(f, TRUE))
          ELSE Descend(f, links[f.i], ClassifyAtSubchapter(links[f.i])) /\ ret' = ret
    /\ UNCHANGED <<disk, memory, world, history, req, mode>>

----------------------------------------------------------------------------
(* scrape_part, with the Subpart handled inline                            *)

PartEntry == UnitEntry("part")
PartFetched == UnitFetched("part")

PartLoop ==
    /\ At("part", "loop")
    /\ LET f == Top
           links == Links(f.info.url)
       IN IF f.i > Len(links) THEN Return(RetData(f, FALSE)) /\ UNCHANGED <<req, nfetch>>
          ELSE IF should_pause THEN Return(RetData(f, TRUE)) /\ UNCHANGED <<req, nfetch>>
          ELSE IF ClassifyAtPart(links[f.i]) = "subpart"
          THEN /\ stack' = SetTop([f EXCEPT !.pc = "subfetch"])
               /\ req' = MakeRequest(links[f.i].url, DefaultRetries)
               /\ nfetch' = Count(nfetch, links[f.i].url)
               /\ ret' = ret
          ELSE /\ Descend(f, links[f.i], ClassifyAtPart(links[f.i]))
               /\ UNCHANGED <<ret, req, nfetch>>
    /\ UNCHANGED <<disk, memory, world, prior, skipped, everDone, failed, raised,
                   mode>>

\* lines 359-360: the Subpart's page
SubpartFetched ==
    /\ At("part", "subfetch")
    /\ req.pc = "done"
    /\ req' = IdleReq
    /\ IF req.ok
       THEN stack' = SetTop([Top EXCEPT !.pc = "subloop", !.j = 1])
       ELSE stack' = SetTop([Top EXCEPT !.pc = "loop", !.i = @ + 1])
    /\ UNCHANGED <<disk, memory, world, history, ret, mode>>

\* lines 362-368: the Subpart's sections, then subparts.append
SubpartLoop ==
    /\ At("part", "subloop")
    /\ LET f == Top
           subpart == Links(f.info.url)[f.i]
           sections == Links(subpart.url)
       IN IF f.j > Len(sections)
          THEN stack' = SetTop([f EXCEPT !.pc = "loop", !.i = @ + 1, !.j = 1,
                                         !.kids = @ \cup {subpart.url}])
          ELSE IF ClassifyAtSubpart(sections[f.j]) = "section"
          THEN stack' = Push(f, Frame("section", sections[f.j], f.sub, f.ch))
          ELSE stack' = SetTop([f EXCEPT !.j = @ + 1])
    /\ UNCHANGED <<disk, memory, world, history, ret, req, mode>>

----------------------------------------------------------------------------
(* scrape_all                                                              *)

Entry(v) ==
    [url |-> v.url, has |-> v.has, cut |-> v.cut, secs |-> v.secs, bad |-> v.bad]

SubtitleUrls(subs) == {subs[k].url : k \in 1..Len(subs)}

\* lines 536-555: the tree checkpoint is loaded on resume; the TOC is fetched
AllStart ==
    /\ At("all", "start")
    /\ IF resume /\ treeFile.st = "valid"
       THEN /\ data' = treeFile.subs
            /\ completed_subtitles' = SubtitleUrls(treeFile.subs)
       ELSE /\ data' = data
            /\ completed_subtitles' = {}
    /\ stack' = SetTop([Top EXCEPT !.pc = "toc"])
    /\ req' = MakeRequest(TOC_URL, DefaultRetries)
    /\ nfetch' = Count(nfetch, TOC_URL)
    /\ UNCHANGED <<disk, completed_sections, should_pause, resume, world, prior,
                   skipped, everDone, failed, raised, ret, mode>>

\* the loop over the Subtitles is entered whatever the TOC fetch gave
AllTocGoesOn ==
    /\ At("all", "toc")
    /\ req.pc = "done"
    /\ req' = IdleReq
    /\ stack' = SetTop([Top EXCEPT !.pc = "loop"])
    /\ UNCHANGED <<disk, memory, world, history, ret, mode>>

\* lines 556-566
AllToc ==
    /\ At("all", "toc")
    /\ req.pc = "done"
    /\ req' = IdleReq
    /\ IF ~req.ok
       THEN stack' = <<>> /\ mode' = "returned"
       ELSE stack' = SetTop([Top EXCEPT !.pc = "loop"]) /\ mode' = mode
    /\ UNCHANGED <<disk, memory, world, history, ret>>

\* _save_final is reached whether or not a pause was requested
AllLoopAlwaysFinal ==
    /\ At("all", "loop")
    /\ LET f == Top
       IN IF f.i > Len(Subtitles)
          THEN /\ stack' = SetTop([f EXCEPT !.pc = "final"])
               /\ UNCHANGED <<mode, skipped>>
          ELSE IF resume /\ Subtitles[f.i].url \in completed_subtitles
          THEN /\ stack' = SetTop([f EXCEPT !.i = @ + 1])
               /\ skipped' = skipped \cup {Subtitles[f.i].url}
               /\ mode' = mode
          ELSE /\ stack' = Push(f, Frame("subtitle", Subtitles[f.i], <<>>, <<>>))
               /\ UNCHANGED <<mode, skipped>>
    /\ UNCHANGED <<disk, memory, world, nfetch, prior, everDone, failed, raised,
                   ret, req>>

\* lines 571-582 and 603-615
AllLoop ==
    /\ At("all", "loop")
    /\ LET f == Top
       IN IF f.i > Len(Subtitles)
          THEN \* line 603: paused runs return, the others go on to _save_final
               /\ IF should_pause
                  THEN stack' = <<>> /\ mode' = "returned"
                  ELSE stack' = SetTop([f EXCEPT !.pc = "final"]) /\ mode' = mode
               /\ skipped' = skipped
          ELSE IF resume /\ Subtitles[f.i].url \in completed_subtitles
          THEN /\ stack' = SetTop([f EXCEPT !.i = @ + 1])
               /\ skipped' = skipped \cup {Subtitles[f.i].url}
               /\ mode' = mode
          ELSE /\ stack' = Push(f, Frame("subtitle", Subtitles[f.i], <<>>, <<>>))
               /\ UNCHANGED <<mode, skipped>>
    /\ UNCHANGED <<disk, memory, world, nfetch, prior, everDone, failed, raised,
                   ret, req>>

\* line 615: _save_final, and scrape_all is over
AllFinal ==
    /\ At("all", "final")
    /\ finalFile' = SaveFinal(data)
    /\ stack' = <<>>
    /\ mode' = "returned"
    /\ UNCHANGED <<progressFile, treeFile, secFile, sumFile, memory, world,
                   history, ret, req>>

\* lines 583-586: the append, and _save_progress's open(..., 'w')
AllAppend ==
    /\ At("all", "append")
    /\ data' = Append(data, Entry(ret))
    /\ treeFile' = OpenedTree
    /\ stack' = SetTop([Top EXCEPT !.pc = "save"])
    /\ UNCHANGED <<progressFile, secFile, sumFile, finalFile, completed_sections,
                   should_pause, resume, completed_subtitles, world, history,
                   ret, req, mode>>

\* the handler saves the tree and ends scrape_all
AllExceptReturns ==
    /\ At("all", "except")
    /\ treeFile' = ValidTree(data)
    /\ stack' = <<>>
    /\ mode' = "returned"
    /\ UNCHANGED <<progressFile, secFile, sumFile, finalFile, memory, world,
                   history, ret, req>>

\* lines 597-600: the handler of an exception raised under scrape_subtitle;
\* nothing is appended, _save_progress opens the tree checkpoint
AllExcept ==
    /\ At("all", "except")
    /\ treeFile' = OpenedTree
    /\ stack' = SetTop([Top EXCEPT !.pc = "save"])
    /\ UNCHANGED <<progressFile, secFile, sumFile, finalFile, memory, world,
                   history, ret, req, mode>>

\* _save_progress's json.dump; the loop goes on to the next Subtitle
SaveProgress ==
    /\ At("all", "save")
    /\ treeFile' = ValidTree(data)
    /\ stack' = SetTop([Top EXCEPT !.pc = "loop", !.i = @ + 1])
    /\ UNCHANGED <<progressFile, secFile, sumFile, finalFile, memory, world,
                   history, ret, req, mode>>

----------------------------------------------------------------------------

\* a step of the running process
Step ==
    \/ AttemptOk \/ AttemptFail
    \/ SectionEntry \/ SectionFetched \/ SectionDump \/ MarkCompleted
    \/ SaveProgressState \/ SectionRaise
    \/ SubtitleEntry \/ SubtitleFetched \/ SubtitleLoop
    \/ ChapterEntry \/ ChapterFetched \/ ChapterLoop \/ SaveChapterSummary
    \/ SubchapterEntry \/ SubchapterFetched \/ SubchapterLoop
    \/ PartEntry \/ PartFetched \/ PartLoop \/ SubpartFetched \/ SubpartLoop
    \/ AllStart \/ AllToc \/ AllLoop \/ AllAppend \/ AllExcept \/ SaveProgress
    \/ AllFinal

Next == StartRun \/ RequestPause \/ Crash \/ Step

Spec == Init /\ [][Next]_vars

----------------------------------------------------------------------------
(* One run of scrape_all against the site whose pages link back: pauses,   *)
(* failed fetches and exceptions, no kill.  The process, once started,     *)
(* keeps executing.                                                        *)

InitCyclic ==
    /\ site = CyclicSite
    /\ seed = {}
    /\ progressFile = AbsentProgress
    /\ treeFile = AbsentTree
    /\ secFile = <<>>
    /\ sumFile = <<>>
    /\ finalFile = NoFinal
    /\ completed_sections = {}
    /\ should_pause = FALSE
    /\ data = <<>>
    /\ stack = <<>>
    /\ ret = NoRet
    /\ req = IdleReq
    /\ resume = FALSE
    /\ completed_subtitles = {}
    /\ mode = "init"
    /\ run = 0
    /\ faults = 0
    /\ nfetch = [u \in AllUrls |-> 0]
    /\ prior = NoPrior
    /\ skipped = {}
    /\ everDone = {}
    /\ failed = {}
    /\ raised = {}
    /\ procs = <<>>

FirstRun == run = 0 /\ StartRun

NextRun == FirstRun \/ RequestPause \/ Step

SpecRun == InitCyclic /\ [][NextRun]_vars /\ WF_vars(Step)

----------------------------------------------------------------------------
(* One run of scrape_all against the site whose TOC lists a Subtitle twice *)

InitRepeat ==
    /\ site = RepeatSite
    /\ seed = {}
    /\ progressFile = AbsentProgress
    /\ treeFile = AbsentTree
    /\ secFile = <<>>
    /\ sumFile = <<>>
    /\ finalFile = NoFinal
    /\ completed_sections = {}
    /\ should_pause = FALSE
    /\ data = <<>>
    /\ stack = <<>>
    /\ ret = NoRet
    /\ req = IdleReq
    /\ resume = FALSE
    /\ completed_subtitles = {}
    /\ mode = "init"
    /\ run = 0
    /\ faults = 0
    /\ nfetch = [u \in AllUrls |-> 0]
    /\ prior = NoPrior
    /\ skipped = {}
    /\ everDone = {}
    /\ failed = {}
    /\ raised = {}
    /\ procs = <<>>

SpecRepeat == InitRepeat /\ [][NextRun]_vars

----------------------------------------------------------------------------
(* _make_request on its own: any URL, any retry count, any outcome of each *)
(* attempt                                                                 *)

InitFetch ==
    /\ site \in Sites
    /\ seed = {}
    /\ progressFile = AbsentProgress
    /\ treeFile = AbsentTree
    /\ secFile = <<>>
    /\ sumFile = <<>>
    /\ finalFile = NoFinal
    /\ completed_sections = {}
    /\ should_pause = FALSE
    /\ data = <<>>
    /\ stack = <<>>
    /\ ret = NoRet
    /\ \E u \in AllUrls, n \in 0..MaxRetries : req = MakeRequest(u, n)
    /\ resume = FALSE
    /\ completed_subtitles = {}
    /\ mode = "init"
    /\ run = 0
    /\ faults = 0
    /\ nfetch = [u \in AllUrls |-> 0]
    /\ prior = NoPrior
    /\ skipped = {}
    /\ everDone = {}
    /\ failed = {}
    /\ raised = {}
    /\ procs = <<>>

FetchOk ==
    /\ req.pc = "run"
    /\ req' = GetOk(req)
    /\ UNCHANGED <<disk, memory, world, history, stack, ret, mode>>

FetchFail ==
    /\ req.pc = "run"
    /\ req' = GetFail(req)
    /\ UNCHANGED <<disk, memory, world, history, stack, ret, mode>>

NextFetch == FetchOk \/ FetchFail

SpecFetch == InitFetch /\ [][NextFetch]_vars

RECURSIVE Backoffs(_)
Backoffs(sleeps) ==
    IF sleeps = <<>> THEN <<>>
    ELSE IF Head(sleeps)[1] = "backoff"
    THEN <<Head(sleeps)[2]>> \o Backoffs(Tail(sleeps))
    ELSE Backoffs(Tail(sleeps))

Failed(r) == r.pc = "done" /\ ~r.ok

\* C9: a _make_request call with retries = n ends in failure only after
\* exactly n attempts, and never makes more than n; the backoff sleeps
\* between its attempts are 1, 2, ..., 2^(n-2) seconds (1 and 2 for the
\* default of 3 retries), and no backoff follows the last attempt.
C9_RetryBound ==
    /\ req.tries <= req.retries
    /\ req.pc = "run" => req.tries = req.attempt /\ req.attempt < req.retries
    /\ Failed(req) =>
          /\ req.tries = req.retries
          /\ Backoffs(req.sleeps) = [k \in 1..(req.retries - 1) |-> Pow2(k - 1)]
          /\ req.retries = DefaultRetries => Backoffs(req.sleeps) = <<1, 2>>
          /\ req.sleeps # <<>> => req.sleeps[Len(req.sleeps)] = <<"delay", Delay>>

C9_Witness ==
    /\ Failed(req)
    /\ req.retries = DefaultRetries
    /\ req.tries = 3
    /\ req.sleeps = << <<"delay", 1>>, <<"backoff", 1>>, <<"delay", 1>>,
                       <<"backoff", 2>>, <<"delay", 1>> >>

----------------------------------------------------------------------------
(* Properties                                                              *)

\* a step of the running process in its current frame
Proc == stack' # stack /\ mode' # "crashed"

\* the call on top of the stack returns in this step
Returns == Proc /\ Len(stack') = Len(stack) - 1

C1_NoFetch ==
    /\ \A u \in prior.done : nfetch[u] = 0
    /\ req.pc # "idle" => req.url \notin prior.done

C1_Step ==
    (At("section", "entry") /\ Top.info.url \in completed_sections /\ Proc)
    => /\ Returns
       /\ ret' = RetSkipped(Top.info.url)
       /\ req.pc = "idle" /\ req' = req
       /\ nfetch' = nfetch
       /\ completed_sections' = completed_sections
       /\ progressFile' = progressFile

\* C1: scrape_section on a URL that is in the CompletionSet issues no fetch,
\* returns the 'skipped' marker and leaves the CompletionSet and its file as
\* they are; so no run ever fetches a leaf that was in the CompletionSet it
\* loaded.
C1_SkipCompleted == []C1_NoFetch /\ [][C1_Step]_vars

\* a resumed second run has skipped a leaf that the first run completed
C1_Witness ==
    /\ run = 2 /\ resume
    /\ ret.k = "skipped"
    /\ ret.url \in prior.done \ seed
    /\ nfetch[ret.url] = 0

\* C2: the CompletionSet in scraper_progress.json never lacks a URL that an
\* earlier complete scraper_progress.json held.
C2_Monotone == progressFile.st = "valid" => everDone \subseteq progressFile.set

\* C3: a killed process leaves each checkpoint file complete (its previous
\* or its new contents), and the process started next loads every URL that
\* was ever persisted.
C3_CrashConsistent ==
    /\ mode = "crashed" => progressFile.st # "partial" /\ treeFile.st # "partial"
    /\ mode = "running" => everDone \subseteq completed_sections

SectionFileOf(u) == \E p \in DOMAIN secFile : secFile[p] = Written({u})

----------------------------------------------------------------------------
(* Resumed runs                                                            *)

Resuming == resume /\ run >= 2 /\ mode \in {"running", "returned"}

\* the tree's entry of a Subtitle that was crawled to its end
FullyCrawled(s) ==
    \E k \in 1..Len(data) : data[k].url = s /\ data[k].has /\ ~data[k].cut

\* C5: a resumed scrape_all skips as a whole only a Subtitle whose crawl an
\* earlier run carried to its end; a Subtitle that a pause or a failed fetch
\* cut short is entered again.
C5_OnlySkipsComplete == Resuming => \A s \in skipped : FullyCrawled(s)

TreeSecs(subs) == UNION {subs[k].secs : k \in 1..Len(subs)}

\* C6: once a resumed run has returned, every section file, every section
\* recorded in a _chapter_summary.json and every section recorded in
\* irc_data_progress.json that was there when the run started is still
\* there, and no leaf of the CompletionSet it loaded was fetched.
C6_NoLoss ==
    (Resuming /\ mode = "returned") =>
        /\ \A u \in prior.files : SectionFileOf(u)
        /\ \A d \in DOMAIN prior.sums :
              IsValid(sumFile, d) /\ prior.sums[d] \subseteq sumFile[d].secs
        /\ treeFile.st = "valid" /\ prior.tree \subseteq TreeSecs(treeFile.subs)
        /\ \A u \in prior.done : nfetch[u] = 0

\* C7: a resumed run fetches no leaf whose section file was written before
\* the run started, and those files stay on disk.
C7_WrittenNotRefetched ==
    Resuming => \A u \in prior.files : nfetch[u] = 0

LeafFetches == nfetch[U_s1] + nfetch[U_s2] + nfetch[U_s3] + nfetch[U_s4]

\* scrape_part of Part I (children Sec. 1 and Sec. 2) in the first run on a
\* directory whose CompletionSet holds Sec. 1, no fetch failing for good
SeededPart(i) ==
    /\ seed = {U_s1} /\ run = 1 /\ failed = {}
    /\ At("part", "loop") /\ Top.info.url = U_pt1 /\ Top.i = i

\* C8: with the CompletionSet seeded with Sec. 1, scrape_part on the Part
\* whose children are Sec. 1 and Sec. 2 gets the 'skipped' marker for Sec. 1
\* without a fetch, fetches Sec. 2 once and nothing else, lists only Sec. 2
\* in its sections, and ends with both URLs in the CompletionSet.
C8_SeededPart ==
    /\ SeededPart(2) => ret = RetSkipped(U_s1) /\ LeafFetches = 0 /\ Top.kids = {}
    /\ SeededPart(3) =>
          /\ ret = RetContent(U_s2)
          /\ nfetch[U_s1] = 0 /\ nfetch[U_s2] = 1 /\ LeafFetches = 1
          /\ Top.kids = {U_s2}
          /\ completed_sections = {U_s1, U_s2}
          /\ progressFile = ValidProgress({U_s1, U_s2})

C8_Witness == SeededPart(3) /\ ret.k = "content"

----------------------------------------------------------------------------
(* Failed fetch of a unit's page                                           *)

UnitFns == {"subtitle", "chapter", "subchapter", "part"}

\* the URLs that the crawl reaches from url
RECURSIVE Below(_)
Below(url) ==
    LET kids == {Links(url)[k].url : k \in 1..Len(Links(url))}
    IN kids \cup UNION {Below(v) : v \in kids}

FetchFailedAt(fn, pc) == At(fn, pc) /\ req.pc = "done" /\ ~req.ok /\ Proc

\* the caller of the method on top of the stack
Caller == stack[Len(stack) - 1]

C10_Step ==
    /\ \A fn \in UnitFns :
          FetchFailedAt(fn, "fetch") =>
              /\ Returns
              /\ ret' = RetInfo(Top, FALSE)
              /\ LET c == stack'[Len(stack')]
                 IN IF Caller.fn = "all" THEN c = [Caller EXCEPT !.pc = "append"]
                    ELSE /\ c.fn = Caller.fn /\ c.pc = Caller.pc
                         /\ c.i = Caller.i + 1
                         /\ c.kids = Caller.kids \cup {Top.info.url}
                         /\ c.secs = Caller.secs /\ c.cut = Caller.cut
              /\ UNCHANGED <<completed_sections, progressFile, secFile, nfetch>>
    /\ FetchFailedAt("part", "subfetch") =>
              /\ stack' = SetTop([Top EXCEPT !.pc = "loop", !.i = @ + 1])
              /\ UNCHANGED <<completed_sections, progressFile, secFile, nfetch, ret>>

C10_Continues ==
    (mode = "returned" /\ ~should_pause /\ ~resume /\ raised = {}) =>
        \A u \in Leaves :
            \/ u \in completed_sections
            \/ \E v \in failed : u = v \/ u \in Below(v)

\* C10: when the fetch of a Subtitle's, Chapter's, Subchapter's or Part's
\* page fails for good, the method returns the dictionary it was given, with
\* no child processed and the CompletionSet, its file and the fetch counts
\* unchanged, and its caller lists it and goes on with the next link; when
\* the fetch of a Subpart's page fails, scrape_part goes on with the next
\* link and lists nothing for the Subpart.  A run that was not paused ends
\* with every leaf completed that is not below a page whose fetch failed.
C10_AbortsUnitOnly == []C10_Continues /\ [][C10_Step]_vars

\* a run went on to the Sec. 3 sibling after Subchapter A's fetch failed
C10_Witness ==
    /\ mode = "returned" /\ ~should_pause /\ ~resume
    /\ U_schA \in failed
    /\ U_s1 \notin completed_sections
    /\ {U_s3, U_s4} \subseteq completed_sections

\* C10 as stated for the Subpart level: a Part lists every Subpart link it
\* has gone past, whether or not the Subpart's page could be fetched.
C10_SubpartListed ==
    At("part", "loop") =>
        \A k \in 1..(Top.i - 1) :
            ClassifyAtPart(Links(Top.info.url)[k]) = "subpart"
                => Links(Top.info.url)[k].url \in Top.kids

----------------------------------------------------------------------------
(* Failed fetch of a leaf                                                  *)

\* the sections recorded in the frames of the methods in progress
StackSecs == UNION {stack[k].secs : k \in 1..Len(stack)}

C11_Step ==
    /\ FetchFailedAt("section", "fetch") =>
          /\ Returns
          /\ ret' = RetNone
          /\ UNCHANGED <<completed_sections, progressFile, secFile, data, treeFile>>
          /\ LET c == stack'[Len(stack')]
             IN /\ c.fn = Caller.fn /\ c.pc = Caller.pc
                /\ c.secs = Caller.secs /\ c.kids = Caller.kids /\ c.cut = Caller.cut
                /\ IF Caller.pc = "subloop"
                   THEN c.j = Caller.j + 1 /\ c.i = Caller.i
                   ELSE c.i = Caller.i + 1
    /\ (At("section", "entry") /\ Top.info.url \notin completed_sections /\ Proc) =>
          /\ req' = MakeRequest(Top.info.url, DefaultRetries)
          /\ nfetch' = Count(nfetch, Top.info.url)

C11_NotRecorded ==
    /\ \A u \in failed \cap Leaves :
          /\ mode = "running" => u \notin completed_sections
          /\ u \notin StackSecs \cup TreeSecs(data)
          /\ u \notin prior.files => ~SectionFileOf(u)
    /\ (mode = "returned" /\ ~should_pause /\ ~resume /\ raised = {}
            /\ failed \subseteq Leaves) =>
        \A u \in Leaves : u \in completed_sections \/ u \in failed

\* C11: when the fetch of a leaf fails for good, scrape_section returns None
\* with the CompletionSet, its file, the section files and the tree as they
\* were; the caller lists nothing for the leaf and goes on with its next
\* link, so that a run that was not paused completes every other leaf; and
\* scrape_section fetches every leaf it is called on that is not in the
\* CompletionSet, a leaf that failed in an earlier run included.
C11_LeafFailure == []C11_NotRecorded /\ [][C11_Step]_vars

\* a run went on to Sec. 2, Sec. 3 and Sec. 4 after the fetch of Sec. 1 failed
C11_Witness ==
    /\ mode = "returned" /\ ~should_pause
    /\ failed = {U_s1}
    /\ completed_sections = {U_s2, U_s3, U_s4}
    /\ ~SectionFileOf(U_s1)
    /\ U_s1 \notin TreeSecs(data)

----------------------------------------------------------------------------
(* Exceptions                                                              *)

\* a run that ended with no pause and no failed fetch
Undisturbed == mode = "returned" /\ ~should_pause /\ ~resume /\ failed = {}

\* C12: an error raised while one leaf is processed costs that leaf only:
\* a run with no pause and no failed fetch ends with every leaf completed
\* except the leaves whose processing raised.
C12_LeafOnly == Undisturbed => \A u \in Leaves : u \in completed_sections \cup raised

C13_Step ==
    /\ raised' \ raised # {} =>
          /\ mode' = "running" /\ run' = run
          /\ stack' = <<[stack[1] EXCEPT !.pc = "except"]>>
          /\ UNCHANGED <<data, completed_sections, should_pause, disk>>
    /\ (At("all", "except") /\ Proc) =>
          /\ treeFile' = OpenedTree
          /\ stack' = <<[Top EXCEPT !.pc = "save"]>>
          /\ UNCHANGED <<data, mode, run>>
    /\ (At("all", "save") /\ Proc) =>
          /\ treeFile' = ValidTree(data)
          /\ stack' = <<[Top EXCEPT !.pc = "loop", !.i = @ + 1]>>
          /\ UNCHANGED <<data, mode, run>>

C13_Advances ==
    (mode = "returned" /\ TOC_URL \notin failed) =>
        /\ raised # {} => treeFile.st = "valid"
        /\ ~should_pause =>
              \A k \in 1..Len(Subtitles) :
                  Subtitles[k].url \in skipped \/ nfetch[Subtitles[k].url] = 1

----------------------------------------------------------------------------
(* Failed fetch of the TOC                                                 *)

C14_Nothing ==
    TOC_URL \in failed =>
        /\ \A u \in AllUrls \ {TOC_URL} : nfetch[u] = 0
        /\ progressFile = prior.progressFile
        /\ treeFile = prior.treeFile
        /\ finalFile = prior.finalFile
        /\ mode = "running" => completed_sections = prior.done /\ stack = <<Top>>

C14_Step ==
    FetchFailedAt("all", "toc") =>
        /\ mode' = "returned" /\ stack' = <<>>
        /\ UNCHANGED <<disk, completed_sections, nfetch>>

\* C14: when the fetch of the TOC fails for good, scrape_all returns at
\* once: no other page is fetched in that run, the CompletionSet,
\* scraper_progress.json and irc_data_progress.json stay as the run found
\* them, and irc_complete.json and scrape_summary.txt are not written.
C14_TocFailureAborts == []C14_Nothing /\ [][C14_Step]_vars

\* a resumed run with a tree checkpoint to load ended on a failed TOC fetch
C14_Witness ==
    /\ mode = "returned" /\ TOC_URL \in failed
    /\ resume /\ treeFile.st = "valid" /\ treeFile.subs # <<>>
    /\ finalFile = NoFinal

----------------------------------------------------------------------------
(* Pause                                                                   *)

\* a sibling loop below scrape_all is about to take its next link
AtSiblingLoop ==
    /\ mode = "running" /\ stack # <<>>
    /\ Top.fn # "all" /\ Top.pc \in {"loop", "subloop"}

\* C15: once the pause flag is set, no sibling loop of a Subtitle, Chapter,
\* Subchapter, Part or Subpart calls a scrape_* method for a further child
\* or issues a further fetch.
C15_LoopsStopOnPause ==
    [][(AtSiblingLoop /\ should_pause /\ Proc)
          => Len(stack') <= Len(stack) /\ nfetch' = nfetch]_vars

----------------------------------------------------------------------------
(* Final output                                                            *)

AtFinal(stk) == stk # <<>> /\ stk[Len(stk)].fn = "all" /\ stk[Len(stk)].pc = "final"

C16_Step ==
    /\ (AtFinal(stack') /\ ~AtFinal(stack)) =>
          /\ At("all", "loop") /\ Top.i > Len(Subtitles)
          /\ ~should_pause
          /\ TOC_URL \notin failed
    /\ finalFile' # finalFile => At("all", "final") /\ mode' = "returned"
    /\ (At("all", "loop") /\ Top.i > Len(Subtitles) /\ should_pause /\ Proc) =>
          mode' = "returned" /\ finalFile' = finalFile

C16_Unwritten ==
    /\ finalFile # prior.finalFile => mode = "returned" /\ TOC_URL \notin failed
    /\ finalFile.json = "absent" <=> finalFile.summary = "absent"

\* C16: irc_complete.json and scrape_summary.txt are written by _save_final
\* only, which a run reaches only from the end of the loop over all the
\* Subtitles with the pause flag not set at the check that follows the
\* loop; a run that finds the flag set there, or whose TOC fetch failed,
\* returns without writing either file.
C16_FinalOnlyIfNotPaused == []C16_Unwritten /\ [][C16_Step]_vars

\* a paused run went through all the Subtitles and returned without the
\* final files
C16_Witness ==
    /\ mode = "returned" /\ should_pause
    /\ Len(data) = Len(Subtitles)
    /\ finalFile = NoFinal

\* C16 as stated: a run in which the pause flag was set at any point leaves
\* the final files as it found them.
C16_PausedWritesNothing ==
    (mode = "returned" /\ should_pause) => finalFile = prior.finalFile

\* C18: while a run is going, every leaf recorded in the tree, in the tree
\* as loaded from irc_data_progress.json by a resumed run, or in a part of
\* the tree still being built, is in the CompletionSet.
C18_TreeInCompletionSet ==
    mode = "running" =>
        (TreeSecs(data) \cup StackSecs \cup ret.secs) \subseteq completed_sections

\* C19: every Subtitle in the saved tree checkpoint had its page fetched and
\* its loop over the chapters run to the end, not cut short by a pause.
C19_SavedSubtitlesCompleted ==
    treeFile.st = "valid" =>
        \A k \in 1..Len(treeFile.subs) :
            treeFile.subs[k].has /\ ~treeFile.subs[k].cut

\* C20: a section file that has been written is never written again, in
\* this run or in a later one.
C20_WrittenOnce ==
    [][\A p \in DOMAIN secFile :
          secFile[p].st = "valid" => (p \in DOMAIN secFile' /\ secFile'[p] = secFile[p])]_vars

\* C21: _chapter_summary.json is written only when the loop of scrape_chapter
\* has processed every child link of the Chapter, never when a pause stopped
\* the loop before that.
C21_SummaryAfterAllChildren ==
    [][(At("chapter", "loop") /\ sumFile' # sumFile)
          => Top.i > Len(Links(Top.info.url))]_vars

\* which scrape_* method calls which
Calls ==
    {<<"all", "subtitle">>, <<"subtitle", "chapter">>, <<"chapter", "subchapter">>,
     <<"chapter", "part">>, <<"chapter", "section">>, <<"subchapter", "part">>,
     <<"subchapter", "section">>, <<"part", "section">>}

Methods == {c[1] : c \in Calls} \cup {c[2] : c \in Calls}

C23_Bounded ==
    /\ \A k \in 1..(Len(stack) - 1) : <<stack[k].fn, stack[k + 1].fn>> \in Calls
    /\ Len(stack) <= Cardinality(Methods)
    /\ req.tries <= req.retries /\ req.retries <= DefaultRetries

\* C23: a run of scrape_all, on a site whose pages link back to an ancestor
\* and to themselves and with any fetch failing, returns: no fetch makes more
\* attempts than its retries, and every call on the stack is a call of a
\* method of a lower level than its caller's, so that the stack is never
\* deeper than the number of methods.
C23_Terminates == []C23_Bounded /\ ((mode = "running") ~> (mode = "returned"))

C23_Witness ==
    /\ mode = "returned"
    /\ nfetch[U_ch1] = 2 /\ nfetch[U_pt1] = 2
    /\ failed # {}
    /\ Leaves \subseteq completed_sections

C24_InSync ==
    (mode = "running" /\ progressFile.st = "valid") =>
        /\ progressFile.set = completed_sections
        /\ progressFile.count = Cardinality(completed_sections)

C24_Step ==
    (At("section", "save") /\ Proc) =>
        /\ progressFile'.st = "valid"
        /\ Top.info.url \in progressFile'.set
        /\ progressFile'.set = completed_sections'
        /\ progressFile'.count = Cardinality(completed_sections')

\* C24: when _mark_completed returns, scraper_progress.json holds exactly
\* the CompletionSet in memory, the URL just marked included, and its
\* total_completed is the size of that set; and whenever the file of a
\* running process is readable (after the load at startup, between two
\* marks) its set and count are those of the CompletionSet in memory.
C24_Synchronous == []C24_InSync /\ [][C24_Step]_vars

C24_Witness ==
    /\ mode = "running"
    /\ run = 2
    /\ prior.done = {U_s1}
    /\ completed_sections = {U_s1, U_s2}
    /\ progressFile = [st |-> "valid", set |-> {U_s1, U_s2}, count |-> 2]

\* scrape_section has issued the fetch of its leaf and has not returned
InFlight ==
    mode = "running" /\ stack # <<>> /\ Top.fn = "section" /\ Top.pc # "entry"

C25_Step ==
    (InFlight /\ should_pause /\ Returns) =>
        \/ /\ ret' = RetContent(Top.info.url)
           /\ Top.info.url \in completed_sections'
           /\ progressFile' = ValidProgress(completed_sections')
           /\ SectionFileOf(Top.info.url)
        \/ /\ ret' = RetNone
           /\ Top.info.url \in failed

\* C25: once scrape_section has issued the fetch of a leaf, a pause
\* requested during the fetch, its retries or the steps after it does not
\* stop the leaf: scrape_section goes on to its end and, unless the fetch
\* failed for good or an exception was raised, it returns only with the
\* section file written and the URL marked and saved.
C25_PauseNotPreemptive ==
    /\ [][C25_Step]_vars
    /\ (InFlight /\ should_pause) ~> ~InFlight

C25_Witness ==
    /\ should_pause
    /\ mode = "running"
    /\ ret = RetContent(U_s1)
    /\ U_s1 \in completed_sections
    /\ SectionFileOf(U_s1)

C26_Step ==
    /\ (mode # "running" /\ mode' = "running") =>
          completed_sections' = LoadProgress(progressFile)
    /\ (At("section", "entry") /\ Proc) =>
          IF Top.info.url \in completed_sections
          THEN /\ Returns
               /\ ret' = RetSkipped(Top.info.url)
               /\ nfetch' = nfetch
          ELSE /\ Len(stack') = Len(stack)
               /\ req' = MakeRequest(Top.info.url, DefaultRetries)
               /\ nfetch' = Count(nfetch, Top.info.url)

C27_ResumesReachEveryLeaf ==
    (/\ mode = "returned" /\ resume
     /\ ~should_pause /\ failed = {} /\ raised = {}
     /\ progressFile = prior.progressFile /\ treeFile = prior.treeFile)
        => Leaves \subseteq completed_sections

\* C29: the saved tree checkpoint holds no Subtitle URL twice.
C29_SubtitleOnce ==
    treeFile.st = "valid" =>
        \A j, k \in 1..Len(treeFile.subs) :
            j # k => treeFile.subs[j].url # treeFile.subs[k].url

\* the call returned the page
Succeeded(r) == r.pc = "done" /\ r.ok

C30_Success ==
    Succeeded(req) =>
        /\ req.tries = req.attempt + 1
        /\ req.tries <= req.retries
        /\ Len(req.sleeps) = 2 * req.tries - 1
        /\ \A j \in 1..req.tries : req.sleeps[2 * j - 1] = <<"delay", Delay>>
        /\ \A j \in 1..(req.tries - 1) : req.sleeps[2 * j] = <<"backoff", Pow2(j - 1)>>

\* C30: a _make_request call that fails on its first k-1 attempts and
\* succeeds on attempt k has made exactly k attempts, k at most retries, and
\* makes no further one; it slept self.delay before each of the k attempts
\* and 2^0, ..., 2^(k-2) after the k-1 failed ones, in this order.
C30_SuccessOnAttemptK == []C30_Success /\ [][req.pc = "done" => req' = req]_vars

C30_Witness ==
    /\ Succeeded(req)
    /\ req.retries = DefaultRetries
    /\ req.tries = DefaultRetries
    /\ req.sleeps = << <<"delay", Delay>>, <<"backoff", 1>>, <<"delay", Delay>>,
                       <<"backoff", 2>>, <<"delay", Delay>> >>

----------------------------------------------------------------------------
(* The if / elif chains on their own: any title made of the keywords, on   *)
(* the page of any level                                                   *)

Keywords == {"Subtitle", "Chapter", "Subchapter", "Part", "Subpart", "Sec.", "Index"}

Titles == UNION {[1..n -> Keywords] : n \in 1..MaxTitleLen}

\* the method whose loop finds the link; "subpart" is the inner loop of
\* scrape_part
Levels == {"all", "subtitle", "chapter", "subchapter", "part", "subpart"}

\* what the loop of the level does with the link
ClassifyAt(level, link) ==
    CASE level = "all" -> IF IsSubtitle(link) THEN "subtitle" ELSE "none"
      [] level = "subtitle" -> ClassifyAtSubtitle(link)
      [] level = "chapter" -> ClassifyAtChapter(link)
      [] level = "subchapter" -> ClassifyAtSubchapter(link)
      [] level = "part" -> ClassifyAtPart(link)
      [] level = "subpart" -> ClassifyAtSubpart(link)

InitClassify ==
    /\ site \in Sites
    /\ seed = {}
    /\ progressFile = AbsentProgress
    /\ treeFile = AbsentTree
    /\ secFile = <<>>
    /\ sumFile = <<>>
    /\ finalFile = NoFinal
    /\ completed_sections = {}
    /\ should_pause = FALSE
    /\ data = <<>>
    /\ \E level \in Levels, title \in Titles, url \in {U_s1, U_pt1} :
          stack = <<Frame(level, Link(title, url), <<>>, <<>>)>>
    /\ ret = NoRet
    /\ req = IdleReq
    /\ resume = FALSE
    /\ completed_subtitles = {}
    /\ mode = "init"
    /\ run = 0
    /\ faults = 0
    /\ nfetch = [u \in AllUrls |-> 0]
    /\ prior = NoPrior
    /\ skipped = {}
    /\ everDone = {}
    /\ failed = {}
    /\ raised = {}
    /\ procs = <<>>

Classify ==
    /\ Top.pc = "entry"
    /\ ret' = [NoRet EXCEPT !.k = ClassifyAt(Top.fn, Top.info)]
    /\ stack' = SetTop([Top EXCEPT !.pc = "classified"])
    /\ UNCHANGED <<disk, memory, world, history, req, mode>>

SpecClassify == InitClassify /\ [][Classify]_vars

\* C17: a link whose title holds both 'Part' and 'Sec.' is never treated as
\* a section, on the page of whatever level it is found.
C17_PartNeverSection ==
    (Top.pc = "classified" /\ Has(Top.info.title, "Part") /\ Has(Top.info.title, "Sec."))
        => ret.k # "section"

\* a leaf link: the 'Sec.' marker in the title or a 'section' segment in the
\* URL, and no keyword of an intermediate level in the title
IsLeafLink(link) ==
    /\ Has(link.title, "Sec.") \/ SectionInUrl(link.url)
    /\ \A w \in {"Subtitle", "Chapter", "Subchapter", "Part", "Subpart"} :
          ~Has(link.title, w)

\* C22: on the page of a Subtitle, Chapter, Subchapter, Part or Subpart, a
\* leaf link is crawled as a Section.
C22_LeafCrawledDirectly ==
    (Top.pc = "classified" /\ Top.fn # "all" /\ IsLeafLink(Top.info))
        => ret.k = "section"

----------------------------------------------------------------------------
(* Two driver scripts (scrape_subtitle_a.py, scrape_subtitle_b.py) run at  *)
(* the same time on the same output directory: each builds its own         *)
(* IRCCodeScraper and calls scrape_subtitle for its Subtitle.  Of each      *)
(* process only the steps that read or write scraper_progress.json are     *)
(* kept: every fetch succeeds and nobody pauses.                           *)

Scripts == {"a", "b"}

\* the leaves scrape_subtitle reaches under the script's Subtitle, in order
Work(p) == IF p = "a" THEN <<U_s1, U_s2, U_s3>> ELSE <<U_s4>>

InitPair ==
    /\ site \in Sites
    /\ seed \in SeedSets
    /\ progressFile = IF seed = {} THEN AbsentProgress ELSE ValidProgress(seed)
    /\ treeFile = AbsentTree
    /\ secFile = <<>>
    /\ sumFile = <<>>
    /\ finalFile = NoFinal
    /\ completed_sections = {}
    /\ should_pause = FALSE
    /\ data = <<>>
    /\ stack = <<>>
    /\ ret = NoRet
    /\ req = IdleReq
    /\ resume = FALSE
    /\ completed_subtitles = {}
    /\ mode = "init"
    /\ run = 0
    /\ faults = 0
    /\ nfetch = [u \in AllUrls |-> 0]
    /\ prior = NoPrior
    /\ skipped = {}
    /\ everDone = seed
    /\ failed = {}
    /\ raised = {}
    /\ procs = [p \in Scripts |->
                   [pc |-> "init", completed_sections |-> {}, todo |-> Work(p),
                    marked |-> {}]]

others == <<site, seed, treeFile, secFile, sumFile, finalFile, completed_sections,
            should_pause, data, stack, ret, req, resume, completed_subtitles,
            mode, run, faults, nfetch, prior, skipped, failed, raised>>

\* IRCCodeScraper(output_dir='irc_data'): _load_progress
ScriptStart(p) ==
    /\ procs[p].pc = "init"
    /\ procs' = [procs EXCEPT ![p].pc = "section",
                              ![p].completed_sections = LoadProgress(progressFile)]
    /\ UNCHANGED <<others, progressFile, everDone>>

\* scrape_section: the 'skipped' marker for a completed leaf, else the leaf
\* is fetched and its file written
ScriptSection(p) ==
    /\ procs[p].pc = "section"
    /\ procs' = IF procs[p].todo = <<>> THEN [procs EXCEPT ![p].pc = "done"]
                ELSE IF Head(procs[p].todo) \in procs[p].completed_sections
                THEN [procs EXCEPT ![p].todo = Tail(@)]
                ELSE [procs EXCEPT ![p].pc = "mark"]
    /\ UNCHANGED <<others, progressFile, everDone>>

\* _mark_completed: the add, and _save_progress_state's open(..., 'w')
ScriptMark(p) ==
    /\ procs[p].pc = "mark"
    /\ procs' = [procs EXCEPT ![p].pc = "save",
                              ![p].completed_sections = @ \cup {Head(procs[p].todo)},
                              ![p].marked = @ \cup {Head(procs[p].todo)}]
    /\ progressFile' = OpenedProgress
    /\ UNCHANGED <<others, everDone>>

\* _save_progress_state's json.dump of the process's own set; if the other
\* process has the file open too, the two dumps may leave a file that does
\* not parse
ScriptSave(p) ==
    /\ procs[p].pc = "save"
    /\ procs' = [procs EXCEPT ![p].pc = "section", ![p].todo = Tail(@)]
    /\ \/ progressFile' = ValidProgress(procs[p].completed_sections)
       \/ /\ \E q \in Scripts \ {p} : procs[q].pc = "save"
          /\ progressFile' = OpenedProgress
    /\ everDone' = everDone \cup procs[p].completed_sections
    /\ UNCHANGED others

NextPair ==
    \E p \in Scripts :
        ScriptStart(p) \/ ScriptSection(p) \/ ScriptMark(p) \/ ScriptSave(p)

SpecPair == InitPair /\ [][NextPair]_vars

\* C28: when both scripts have finished, scraper_progress.json holds every
\* leaf that either of them marked.
C28_UnionKept ==
    (\A p \in Scripts : procs[p].pc = "done") =>
        /\ progressFile.st = "valid"
        /\ UNION {procs[p].marked : p \in Scripts} \subseteq progressFile.set

====
